---- MODULE Spec2Model ----
(***************************************************************************)
(* A model of openpgp-parser/src/signature.rs: the OpenPGP signature       *)
(* packet decoder (read_mpi, pkey_alg_mpis, check_hash_algorithm,          *)
(* process_subpacket, parse_packet_body, read_signature, parse).           *)
(*                                                                         *)
(* Bytes are naturals 0..255 and a buffer is a sequence of bytes.  A       *)
(* Reader is modelled by the sequence of bytes it has not consumed yet.    *)
(* Every fallible function returns a Result record; functions that take    *)
(* `&mut Reader` return the Result together with the reader they leave.    *)
(***************************************************************************)
EXTENDS Integers, Sequences, FiniteSets, TLC

VARIABLES
    op,                \* the operation this behaviour exercises
    arg,               \* the arguments of a pure-function call
    timestamp,         \* parse / read_signature: the reference time
    allow_weak_hashes, \* parse / read_signature: the weak-hash policy
    gen,               \* the signature under construction by the caller
    variant,           \* how `data` was derived from the signature
    base,              \* the results obtained on the untouched signature
    data,              \* the buffer handed to parse / read_signature
    pc,                \* position of the decoder
    reader,            \* read_signature's cursor over `data`
    body,              \* the cursor over packet.contents()
    hashed,            \* the cursor over the hashed subpacket area
    unhashed_area,     \* what `body` held when the unhashed area was reached
    siginfo,           \* InternalSigInfo, the accumulator
    sub_seen,          \* tag byte and payload of each subpacket processed
    version,           \* the version byte read
    pkey_alg,
    hash_alg,
    key_id,
    mpis_read,         \* MPIs read after the hash preview
    at,                \* the step in which the decoder returned
    result,            \* what read_signature (or the pure function) returned
    parse_result       \* what parse returned on the same buffer

vars ==
    << op, arg, timestamp, allow_weak_hashes, gen, variant, base, data, pc,
       reader, body, hashed, unhashed_area, siginfo, sub_seen, version,
       pkey_alg, hash_alg, key_id, mpis_read, at, result, parse_result >>

-----------------------------------------------------------------------------
(* Bounds of the model.                                                    *)

\* most subpackets the caller puts in a hashed area
MaxSubpackets == 3
\* most MPIs the caller puts after the hash preview
MaxMpis == 2
\* the non-zero reference time the caller uses
RefTime == 300
\* read_mpi is applied to every bit-length header 0..MaxMpiBits
MaxMpiBits == 17
\* pkey_alg_mpis is applied to every version byte 0..MaxVersion
MaxVersion == 5
\* most bytes the caller appends after a signature
MaxExtra == 1

-----------------------------------------------------------------------------
(* Constants of signature.rs.                                              *)

OPENPGP_SIGNATURE_TYPE_BINARY == 0

OPENPGP_HASH_INSECURE_MD5 == 1
OPENPGP_HASH_INSECURE_SHA1 == 2
OPENPGP_HASH_INSECURE_RIPEMD160 == 3
OPENPGP_HASH_EXPIRIMENTAL_DOUBLE_SHA == 4
OPENPGP_HASH_INSECURE_MD2 == 5
OPENPGP_HASH_INSECURE_TIGER192 == 6
OPENPGP_HASH_INSECURE_HAVAL_5_160 == 7
OPENPGP_HASH_SHA256 == 8
OPENPGP_HASH_SHA384 == 9
OPENPGP_HASH_SHA512 == 10
OPENPGP_HASH_SHA224 == 11

OPENPGP_PUBLIC_KEY_RSA == 1
OPENPGP_PUBLIC_KEY_LEGACY_RSA_ENCRYPT_ONLY == 2
OPENPGP_PUBLIC_KEY_LEGACY_RSA_SIGN_ONLY == 3
OPENPGP_PUBLIC_KEY_ELGAMAL_ENCRYPT_ONLY == 16
OPENPGP_PUBLIC_KEY_DSA == 17
OPENPGP_PUBLIC_KEY_ECDH == 18
OPENPGP_PUBLIC_KEY_ECDSA == 19
OPENPGP_PUBLIC_KEY_INSECURE_ELGAMAL_SIGN_ENCRYPT == 20
OPENPGP_PUBLIC_KEY_DH == 21
OPENPGP_PUBLIC_KEY_EDDSA == 22

SUBPACKET_CREATION_TIME == 2
SUBPACKET_SIG_EXPIRATION_TIME == 3
SUBPACKET_EXPORTABLE == 4
SUBPACKET_TRUST_SIG == 5
SUBPACKET_REGEX == 6
SUBPACKET_REVOCABLE == 7
SUBPACKET_KEY_EXPIRATION_TIME == 9
SUBPACKET_PLACEHOLDER == 10
SUBPACKET_PREFERRED_SYMMETRIC == 11
SUBPACKET_REVOCATION_KEY == 12
SUBPACKET_ISSUER_KEYID == 16
SUBPACKET_NOTATION == 20
SUBPACKET_PREFERRED_HASH == 21
SUBPACKET_PREFERRED_COMPRESSION == 22
SUBPACKET_KEY_SERVER_PREFERENCES == 23
SUBPACKET_PREFERRED_KEY_SERVERS == 24
SUBPACKET_PRIMARY_USER_ID == 25
SUBPACKET_POLICY_URI == 26
SUBPACKET_KEY_FLAGS == 27
SUBPACKET_SIGNER_USER_ID == 28
SUBPACKET_REVOCATION_REASON == 29
SUBPACKET_FEATURES == 30
SUBPACKET_SIGNATURE_TARGET == 31
SUBPACKET_EMBEDDED_SIGNATURE == 32
SUBPACKET_FINGERPRINT == 33

\* the tag packet::next must report for read_signature to go on
SIGNATURE_PACKET_TAG == 2

-----------------------------------------------------------------------------
(* Result, Option and Error.                                               *)

\* Ok(v)
Ok(v) == [ok |-> TRUE, err |-> "", code |-> -1, val |-> v]
\* Err(Error::e)
Err(e) == [ok |-> FALSE, err |-> e, code |-> -1, val |-> <<>>]
\* Err(Error::e(code)), for the variants that carry the offending code
ErrWith(e, c) == [ok |-> FALSE, err |-> e, code |-> c, val |-> <<>>]

\* Option: None is the empty sequence, Some(x) the one-element sequence
None == <<>>
Some(x) == <<x>>

\* AllowWeakHashes
AllowWeakHashes == {"No", "Yes"}

Byte == 0..255

-----------------------------------------------------------------------------
(* The bounded cursor (Reader) the decoder consumes.  A reader value is    *)
(* the sequence of bytes still to be read.                                 *)

\* the bytes of s from index n+1 on
Drop(s, n) == SubSeq(s, n + 1, Len(s))

\* Reader::get_bytes: exactly n bytes, or the truncation error
get_bytes(rd, n) ==
    IF Len(rd) < n
    THEN [res |-> Err("PrematureEOF"), rd |-> rd]
    ELSE [res |-> Ok(SubSeq(rd, 1, n)), rd |-> Drop(rd, n)]

\* Reader::byte
byte(rd) ==
    IF Len(rd) < 1
    THEN [res |-> Err("PrematureEOF"), rd |-> rd]
    ELSE [res |-> Ok(rd[1]), rd |-> Drop(rd, 1)]

\* Reader::be_u16: a big-endian 16-bit integer
be_u16(rd) ==
    IF Len(rd) < 2
    THEN [res |-> Err("PrematureEOF"), rd |-> rd]
    ELSE [res |-> Ok(rd[1] * 256 + rd[2]), rd |-> Drop(rd, 2)]

\* Reader::be_u32: a big-endian 32-bit integer
be_u32(rd) ==
    IF Len(rd) < 4
    THEN [res |-> Err("PrematureEOF"), rd |-> rd]
    ELSE [res |-> Ok(((rd[1] * 256 + rd[2]) * 256 + rd[3]) * 256 + rd[4]),
          rd |-> Drop(rd, 4)]

\* Reader::be_u64: a big-endian 64-bit integer, kept as its two 32-bit halves
be_u64(rd) ==
    IF Len(rd) < 8
    THEN [res |-> Err("PrematureEOF"), rd |-> rd]
    ELSE [res |-> Ok([hi |-> be_u32(rd).res.val,
                      lo |-> be_u32(Drop(rd, 4)).res.val]),
          rd |-> Drop(rd, 8)]

\* u32::to_be_bytes
u32_to_be_bytes(n) ==
    << n \div 16777216, (n \div 65536) % 256, (n \div 256) % 256, n % 256 >>

\* u16::to_be_bytes
u16_to_be_bytes(n) == << (n \div 256) % 256, n % 256 >>

\* u64::to_be_bytes, of a value kept as its two 32-bit halves
u64_to_be_bytes(x) == u32_to_be_bytes(x.hi) \o u32_to_be_bytes(x.lo)

\* Reader::is_empty
is_empty(rd) == Len(rd) = 0

\* Reader::read: run a parser on a copy of the reader and commit the copy
\* only if the parser succeeds; r is what the parser returned on the copy
read(rd, r) == IF r.res.ok THEN r ELSE [res |-> r.res, rd |-> rd]

\* Reader::read_all, the part after the callback: `res` is what the callback
\* returned and `rest` what it left of the buffer
read_all(res, rest, error) ==
    IF ~res.ok THEN res
    ELSE IF is_empty(rest) THEN res
    ELSE Err(error)

\* u8::leading_zeros
leading_zeros(b) ==
    IF b >= 128 THEN 0
    ELSE IF b >= 64 THEN 1
    ELSE IF b >= 32 THEN 2
    ELSE IF b >= 16 THEN 3
    ELSE IF b >= 8 THEN 4
    ELSE IF b >= 4 THEN 5
    ELSE IF b >= 2 THEN 6
    ELSE IF b >= 1 THEN 7
    ELSE 8

\* packet::get_varlen_bytes: the sub-slice a subpacket's (or new-format
\* packet's) own length field describes
get_varlen_bytes(rd) ==
    LET k == byte(rd) IN
    IF ~k.res.ok THEN [res |-> k.res, rd |-> rd]
    ELSE IF k.res.val <= 191 THEN get_bytes(k.rd, k.res.val)
    ELSE IF k.res.val <= 223 THEN
        LET b == byte(k.rd) IN
        IF ~b.res.ok THEN [res |-> b.res, rd |-> b.rd]
        ELSE get_bytes(b.rd, (k.res.val - 192) * 256 + b.res.val + 192)
    ELSE IF k.res.val = 255 THEN
        LET n == be_u32(k.rd) IN
        IF ~n.res.ok THEN [res |-> n.res, rd |-> n.rd]
        ELSE get_bytes(n.rd, n.res.val)
    ELSE [res |-> Err("PartialLength"), rd |-> k.rd]

\* the value of a big-endian byte string (an old-format packet length)
RECURSIVE be_value(_)
be_value(bs) ==
    IF Len(bs) = 0 THEN 0
    ELSE be_value(SubSeq(bs, 1, Len(bs) - 1)) * 256 + bs[Len(bs)]

\* 2^n for the old-format length-of-length
Pow2(n) == IF n = 0 THEN 1 ELSE IF n = 1 THEN 2 ELSE IF n = 2 THEN 4 ELSE 8

\* packet::next: the next packet's tag and contents, None at end of input
packet_next(rd) ==
    IF is_empty(rd) THEN [res |-> Ok(None), rd |-> rd]
    ELSE
    LET tagbyte == rd[1]
        r1 == Drop(rd, 1)
    IN
    IF tagbyte < 128 THEN [res |-> Err("PacketFirstBitZero"), rd |-> r1]
    ELSE IF (tagbyte \div 64) % 2 = 0 THEN
        \* old format: 4-bit tag, 2-bit length type
        LET lenlen == Pow2(tagbyte % 4) IN
        IF lenlen > 4 THEN [res |-> Err("IndefiniteLength"), rd |-> r1]
        ELSE
        LET l == get_bytes(r1, lenlen) IN
        IF ~l.res.ok THEN [res |-> l.res, rd |-> l.rd]
        ELSE
        LET c == get_bytes(l.rd, be_value(l.res.val)) IN
        IF ~c.res.ok THEN [res |-> c.res, rd |-> c.rd]
        ELSE [res |-> Ok(Some([tag |-> (tagbyte \div 4) % 16,
                               contents |-> c.res.val])),
              rd |-> c.rd]
    ELSE
        \* new format: 6-bit tag, variable-length length
        LET c == get_varlen_bytes(r1) IN
        IF ~c.res.ok THEN [res |-> c.res, rd |-> c.rd]
        ELSE [res |-> Ok(Some([tag |-> tagbyte % 64,
                               contents |-> c.res.val])),
              rd |-> c.rd]

-----------------------------------------------------------------------------
(* read_mpi                                                                *)

\* read_mpi with the canonical-form test made on the header's own low bits
read_mpi_low_bits(rd) ==
    LET h == be_u16(rd) IN
    IF ~h.res.ok THEN [res |-> h.res, rd |-> rd]
    ELSE
    LET bits == 7 + h.res.val
        m == get_bytes(h.rd, bits \div 8)
    IN
    IF ~m.res.ok THEN [res |-> m.res, rd |-> rd]
    ELSE IF Len(m.res.val) > 0
            /\ leading_zeros(m.res.val[1]) + (h.res.val % 8) # 7
    THEN [res |-> Err("BadMPI"), rd |-> rd]
    ELSE [res |-> m.res, rd |-> m.rd]

\* read_mpi: a 16-bit bit count, then (bits + 7) >> 3 bytes with no
\* spurious leading zeros
read_mpi(rd) ==
    LET h == be_u16(rd) IN
    IF ~h.res.ok THEN read(rd, [res |-> h.res, rd |-> h.rd])
    ELSE
    LET bits == 7 + h.res.val
        m == get_bytes(h.rd, bits \div 8)
    IN
    IF ~m.res.ok THEN read(rd, [res |-> m.res, rd |-> m.rd])
    ELSE IF Len(m.res.val) > 0
            /\ leading_zeros(m.res.val[1]) + (bits % 8) # 7
    THEN read(rd, [res |-> Err("BadMPI"), rd |-> m.rd])
    ELSE read(rd, [res |-> m.res, rd |-> m.rd])

-----------------------------------------------------------------------------
(* pkey_alg_mpis and check_hash_algorithm                                  *)

\* pkey_alg_mpis with EdDSA let through under version 3
pkey_alg_mpis_eddsa_v3(alg, sig_version) ==
    IF sig_version \notin {3, 4} THEN Err("UnsupportedSignatureVersion")
    ELSE IF alg \in {OPENPGP_PUBLIC_KEY_RSA,
                     OPENPGP_PUBLIC_KEY_LEGACY_RSA_SIGN_ONLY} THEN Ok(1)
    ELSE IF alg \in {OPENPGP_PUBLIC_KEY_EDDSA, OPENPGP_PUBLIC_KEY_DSA}
    THEN Ok(2)
    ELSE IF alg \in {OPENPGP_PUBLIC_KEY_LEGACY_RSA_ENCRYPT_ONLY,
                     OPENPGP_PUBLIC_KEY_ELGAMAL_ENCRYPT_ONLY,
                     OPENPGP_PUBLIC_KEY_INSECURE_ELGAMAL_SIGN_ENCRYPT,
                     OPENPGP_PUBLIC_KEY_ECDH,
                     OPENPGP_PUBLIC_KEY_DH}
    THEN ErrWith("InvalidPkeyAlgorithm", alg)
    ELSE IF alg = OPENPGP_PUBLIC_KEY_ECDSA /\ sig_version = 4
    THEN ErrWith("UnsupportedPkeyAlgorithm", alg)
    ELSE IF alg = OPENPGP_PUBLIC_KEY_ECDSA
    THEN ErrWith("PkeyAlgorithmRequiresV4Sig", alg)
    ELSE ErrWith("UnknownPkeyAlgorithm", alg)

\* pkey_alg_mpis: the number of MPIs of public-key algorithm `alg` under
\* signature version `sig_version`; the match arms in source order
pkey_alg_mpis(alg, sig_version) ==
    IF sig_version \notin {3, 4} THEN Err("UnsupportedSignatureVersion")
    ELSE
    LET is_v4 == (sig_version = 4) IN
    IF alg \in {OPENPGP_PUBLIC_KEY_LEGACY_RSA_ENCRYPT_ONLY,
                OPENPGP_PUBLIC_KEY_ELGAMAL_ENCRYPT_ONLY,
                OPENPGP_PUBLIC_KEY_INSECURE_ELGAMAL_SIGN_ENCRYPT,
                OPENPGP_PUBLIC_KEY_ECDH,
                OPENPGP_PUBLIC_KEY_DH}
    THEN ErrWith("InvalidPkeyAlgorithm", alg)
    ELSE IF alg \in {OPENPGP_PUBLIC_KEY_RSA,
                     OPENPGP_PUBLIC_KEY_LEGACY_RSA_SIGN_ONLY} THEN Ok(1)
    ELSE IF alg = OPENPGP_PUBLIC_KEY_EDDSA /\ is_v4 THEN Ok(2)
    ELSE IF alg = OPENPGP_PUBLIC_KEY_DSA THEN Ok(2)
    ELSE IF alg = OPENPGP_PUBLIC_KEY_ECDSA /\ is_v4
    THEN ErrWith("UnsupportedPkeyAlgorithm", alg)
    ELSE IF alg \in {OPENPGP_PUBLIC_KEY_ECDSA, OPENPGP_PUBLIC_KEY_EDDSA}
    THEN ErrWith("PkeyAlgorithmRequiresV4Sig", alg)
    ELSE ErrWith("UnknownPkeyAlgorithm", alg)

\* check_hash_algorithm with SHA-1 accepted under either policy
check_hash_algorithm_sha1(hash, allow) ==
    IF hash = OPENPGP_HASH_SHA256 THEN Ok(32)
    ELSE IF hash = OPENPGP_HASH_SHA384 THEN Ok(48)
    ELSE IF hash = OPENPGP_HASH_SHA512 THEN Ok(64)
    ELSE IF hash = OPENPGP_HASH_SHA224 /\ allow = "Yes" THEN Ok(28)
    ELSE IF hash = OPENPGP_HASH_INSECURE_MD5 /\ allow = "Yes" THEN Ok(16)
    ELSE IF hash = OPENPGP_HASH_INSECURE_SHA1 THEN Ok(20)
    ELSE IF hash \in {OPENPGP_HASH_INSECURE_RIPEMD160,
                      OPENPGP_HASH_INSECURE_MD2,
                      OPENPGP_HASH_INSECURE_TIGER192,
                      OPENPGP_HASH_INSECURE_HAVAL_5_160,
                      OPENPGP_HASH_SHA224}
    THEN ErrWith("InsecureAlgorithm", hash)
    ELSE ErrWith("UnsupportedHashAlgorithm", hash)

\* check_hash_algorithm: the digest length of an acceptable hash algorithm;
\* the match arms in source order
check_hash_algorithm(hash, allow) ==
    IF hash = OPENPGP_HASH_SHA256 THEN Ok(32)
    ELSE IF hash = OPENPGP_HASH_SHA384 THEN Ok(48)
    ELSE IF hash = OPENPGP_HASH_SHA512 THEN Ok(64)
    ELSE IF hash = OPENPGP_HASH_SHA224 /\ allow = "Yes" THEN Ok(28)
    ELSE IF hash = OPENPGP_HASH_INSECURE_MD5 /\ allow = "Yes" THEN Ok(16)
    ELSE IF hash = OPENPGP_HASH_INSECURE_SHA1 /\ allow = "Yes" THEN Ok(20)
    ELSE IF hash \in {OPENPGP_HASH_INSECURE_SHA1,
                      OPENPGP_HASH_INSECURE_RIPEMD160,
                      OPENPGP_HASH_INSECURE_MD2,
                      OPENPGP_HASH_INSECURE_TIGER192,
                      OPENPGP_HASH_INSECURE_HAVAL_5_160,
                      OPENPGP_HASH_SHA224}
    THEN ErrWith("InsecureAlgorithm", hash)
    ELSE ErrWith("UnsupportedHashAlgorithm", hash)

-----------------------------------------------------------------------------
(* process_subpacket                                                       *)

\* InternalSigInfo as parse_packet_body creates it
EmptySigInfo ==
    [id |-> None, fpr |-> None, creation_time |-> None,
     expiration_time |-> None]

\* the subpacket kinds of the first match arm: invalid in this context
OutOfContextSubpackets ==
    {SUBPACKET_KEY_EXPIRATION_TIME, SUBPACKET_PREFERRED_SYMMETRIC,
     SUBPACKET_PREFERRED_HASH, SUBPACKET_PREFERRED_COMPRESSION,
     SUBPACKET_KEY_SERVER_PREFERENCES, SUBPACKET_PRIMARY_USER_ID,
     SUBPACKET_PREFERRED_KEY_SERVERS, SUBPACKET_FEATURES,
     SUBPACKET_EXPORTABLE, SUBPACKET_TRUST_SIG, SUBPACKET_REGEX,
     SUBPACKET_REVOCATION_KEY, SUBPACKET_KEY_FLAGS,
     SUBPACKET_REVOCATION_REASON, SUBPACKET_SIGNATURE_TARGET,
     SUBPACKET_EMBEDDED_SIGNATURE, SUBPACKET_REVOCABLE,
     SUBPACKET_PLACEHOLDER}

\* the SUBPACKET_SIG_EXPIRATION_TIME arm; mem::replace stores the new value
\* before its old value is looked at
subpacket_sig_expiration_time(rd, time, id) ==
    LET t == be_u32(rd) IN
    IF ~t.res.ok THEN [res |-> t.res, rd |-> t.rd, id |-> id]
    ELSE IF time # 0 /\ t.res.val >= time
    THEN [res |-> Err("SignatureExpired"), rd |-> t.rd, id |-> id]
    ELSE IF id.expiration_time # None
    THEN [res |-> Err("IllFormedSignature"), rd |-> t.rd,
          id |-> [id EXCEPT !.expiration_time = Some(t.res.val)]]
    ELSE [res |-> Ok(<<>>), rd |-> t.rd,
          id |-> [id EXCEPT !.expiration_time = Some(t.res.val)]]

\* the SUBPACKET_CREATION_TIME arm
subpacket_creation_time(rd, time, id) ==
    LET t == be_u32(rd) IN
    IF ~t.res.ok THEN [res |-> t.res, rd |-> t.rd, id |-> id]
    ELSE IF time # 0 /\ t.res.val < time
    THEN [res |-> Err("SignatureNotValidYet"), rd |-> t.rd, id |-> id]
    ELSE IF id.creation_time # None
    THEN [res |-> Err("IllFormedSignature"), rd |-> t.rd,
          id |-> [id EXCEPT !.creation_time = Some(t.res.val)]]
    ELSE [res |-> Ok(<<>>), rd |-> t.rd,
          id |-> [id EXCEPT !.creation_time = Some(t.res.val)]]

\* the SUBPACKET_ISSUER_KEYID arm with the is_some() test left out
subpacket_issuer_keyid_overwrite(rd, id) ==
    LET k == get_bytes(rd, 8) IN
    IF ~k.res.ok THEN [res |-> k.res, rd |-> k.rd, id |-> id]
    ELSE [res |-> Ok(<<>>), rd |-> k.rd,
          id |-> [id EXCEPT !.id = Some(k.res.val)]]

\* the SUBPACKET_ISSUER_KEYID arm
subpacket_issuer_keyid(rd, id) ==
    IF id.id # None
    THEN [res |-> Err("IllFormedSignature"), rd |-> rd, id |-> id]
    ELSE
    LET k == get_bytes(rd, 8) IN
    IF ~k.res.ok THEN [res |-> k.res, rd |-> k.rd, id |-> id]
    ELSE [res |-> Ok(<<>>), rd |-> k.rd,
          id |-> [id EXCEPT !.id = Some(k.res.val)]]

\* the SUBPACKET_FINGERPRINT arm: 21 bytes, the first of them 4
subpacket_fingerprint(rd, id) ==
    LET f == get_bytes(rd, 21) IN
    IF ~f.res.ok THEN [res |-> f.res, rd |-> f.rd, id |-> id]
    ELSE IF f.res.val[1] = 4 /\ id.fpr = None
    THEN [res |-> Ok(<<>>), rd |-> f.rd,
          id |-> [id EXCEPT !.fpr = Some(Drop(f.res.val, 1))]]
    ELSE [res |-> Err("IllFormedSignature"), rd |-> f.rd, id |-> id]

\* process_subpacket with the kinds it does not know skipped
process_subpacket_skip_unknown(rd, time, tag, id) ==
    IF tag \in OutOfContextSubpackets
    THEN [res |-> Err("IllFormedSignature"), rd |-> rd, id |-> id]
    ELSE IF tag = SUBPACKET_SIG_EXPIRATION_TIME
    THEN subpacket_sig_expiration_time(rd, time, id)
    ELSE IF tag = SUBPACKET_CREATION_TIME
    THEN subpacket_creation_time(rd, time, id)
    ELSE IF tag = SUBPACKET_ISSUER_KEYID
    THEN subpacket_issuer_keyid(rd, id)
    ELSE IF tag = SUBPACKET_FINGERPRINT
    THEN subpacket_fingerprint(rd, id)
    ELSE [res |-> Ok(<<>>), rd |-> <<>>, id |-> id]

\* process_subpacket: one subpacket, folded into the accumulator `id`
process_subpacket(rd, time, tag, id) ==
    IF tag \in OutOfContextSubpackets
    THEN [res |-> Err("IllFormedSignature"), rd |-> rd, id |-> id]
    ELSE IF tag = SUBPACKET_SIG_EXPIRATION_TIME
    THEN subpacket_sig_expiration_time(rd, time, id)
    ELSE IF tag = SUBPACKET_CREATION_TIME
    THEN subpacket_creation_time(rd, time, id)
    ELSE IF tag = SUBPACKET_ISSUER_KEYID
    THEN subpacket_issuer_keyid(rd, id)
    ELSE IF tag = SUBPACKET_FINGERPRINT
    THEN subpacket_fingerprint(rd, id)
    ELSE [res |-> Err("UnsupportedCriticalSubpacket"), rd |-> rd, id |-> id]

\* one turn of the loop over the hashed area: frame a subpacket, take its
\* tag byte, drop the critical bit, process it, require it to be used up
hashed_subpacket(rd, time, id) ==
    LET v == get_varlen_bytes(rd) IN
    IF ~v.res.ok THEN [res |-> v.res, rd |-> v.rd, id |-> id, seen |-> None]
    ELSE
    LET t == byte(v.res.val) IN
    IF ~t.res.ok THEN [res |-> t.res, rd |-> v.rd, id |-> id, seen |-> None]
    ELSE
    LET p == process_subpacket(t.rd, time, t.res.val % 128, id) IN
    [res |-> read_all(p.res, p.rd, "TrailingJunk"), rd |-> v.rd,
     id |-> p.id, seen |-> Some([tag |-> t.res.val, payload |-> t.rd])]

-----------------------------------------------------------------------------
(* read_signature and parse_packet_body                                    *)

\* read_signature with the end of input reported as IllFormedSignature
next_signature_packet_eof(rd) ==
    LET n == packet_next(rd) IN
    IF ~n.res.ok THEN [res |-> n.res, rd |-> n.rd]
    ELSE IF n.res.val = None
    THEN [res |-> Err("IllFormedSignature"), rd |-> n.rd]
    ELSE IF n.res.val[1].tag # SIGNATURE_PACKET_TAG
    THEN [res |-> Err("IllFormedSignature"), rd |-> n.rd]
    ELSE [res |-> Ok(n.res.val[1].contents), rd |-> n.rd]

\* read_signature up to its read_all: the contents of the next packet,
\* which must be a signature packet
next_signature_packet(rd) ==
    LET n == packet_next(rd) IN
    IF ~n.res.ok THEN [res |-> n.res, rd |-> n.rd]
    ELSE IF n.res.val = None
    THEN [res |-> Err("PrematureEOF"), rd |-> n.rd]
    ELSE IF n.res.val[1].tag # SIGNATURE_PACKET_TAG
    THEN [res |-> Err("IllFormedSignature"), rd |-> n.rd]
    ELSE [res |-> Ok(n.res.val[1].contents), rd |-> n.rd]

\* parse_packet_body, the version-3 arm: the fixed fields
body_v3(rd) ==
    LET l == byte(rd) IN
    IF ~l.res.ok THEN [res |-> l.res, rd |-> l.rd]
    ELSE IF l.res.val # 5
    THEN [res |-> Err("IllFormedSignature"), rd |-> l.rd]
    ELSE
    LET ty == byte(l.rd) IN
    IF ~ty.res.ok THEN [res |-> ty.res, rd |-> ty.rd]
    ELSE IF ty.res.val # OPENPGP_SIGNATURE_TYPE_BINARY
    THEN [res |-> Err("IllFormedSignature"), rd |-> ty.rd]
    ELSE
    LET c == be_u32(ty.rd) IN
    IF ~c.res.ok THEN [res |-> c.res, rd |-> c.rd]
    ELSE
    LET k == be_u64(c.rd) IN
    IF ~k.res.ok THEN [res |-> k.res, rd |-> k.rd]
    ELSE
    LET p == byte(k.rd) IN
    IF ~p.res.ok THEN [res |-> p.res, rd |-> p.rd]
    ELSE
    LET h == byte(p.rd) IN
    IF ~h.res.ok THEN [res |-> h.res, rd |-> h.rd]
    ELSE [res |-> Ok([pkey_alg |-> p.res.val, hash_alg |-> h.res.val,
                      creation_time |-> Some(c.res.val),
                      key_id |-> Some(u64_to_be_bytes(k.res.val)),
                      hashed |-> <<>>]),
          rd |-> h.rd]

\* parse_packet_body, the version-4 arm up to the hashed area it cuts out
body_v4(rd) ==
    LET ty == byte(rd) IN
    IF ~ty.res.ok THEN [res |-> ty.res, rd |-> ty.rd]
    ELSE IF ty.res.val # OPENPGP_SIGNATURE_TYPE_BINARY
    THEN [res |-> Err("IllFormedSignature"), rd |-> ty.rd]
    ELSE
    LET p == byte(ty.rd) IN
    IF ~p.res.ok THEN [res |-> p.res, rd |-> p.rd]
    ELSE
    LET h == byte(p.rd) IN
    IF ~h.res.ok THEN [res |-> h.res, rd |-> h.rd]
    ELSE
    LET n == be_u16(h.rd) IN
    IF ~n.res.ok THEN [res |-> n.res, rd |-> n.rd]
    ELSE
    LET a == get_bytes(n.rd, n.res.val) IN
    IF ~a.res.ok THEN [res |-> a.res, rd |-> a.rd]
    ELSE [res |-> Ok([pkey_alg |-> p.res.val, hash_alg |-> h.res.val,
                      creation_time |-> None, key_id |-> None,
                      hashed |-> a.res.val]),
          rd |-> a.rd]

\* the match on siginfo.id with a key id taken from the unhashed area even
\* when the hashed area gave one
unhashed_key_id_both(id, rd) ==
    LET g == get_bytes(rd, 4) IN
    IF ~g.res.ok THEN [res |-> g.res, rd |-> g.rd]
    ELSE IF g.res.val = <<0, 10, 9, SUBPACKET_ISSUER_KEYID>>
    THEN get_bytes(g.rd, 8)
    ELSE IF id # None /\ SubSeq(g.res.val, 1, 2) = <<0, 0>>
    THEN [res |-> Ok(id[1]), rd |-> Drop(rd, 2)]
    ELSE [res |-> Err("IllFormedSignature"), rd |-> g.rd]

\* the match on siginfo.id that resolves the key id from the unhashed area
unhashed_key_id(id, rd) ==
    IF id = None THEN
        LET g == get_bytes(rd, 4) IN
        IF ~g.res.ok THEN [res |-> g.res, rd |-> g.rd]
        ELSE IF g.res.val = <<0, 10, 9, SUBPACKET_ISSUER_KEYID>>
        THEN get_bytes(g.rd, 8)
        ELSE [res |-> Err("IllFormedSignature"), rd |-> g.rd]
    ELSE
        LET n == be_u16(rd) IN
        IF ~n.res.ok THEN [res |-> n.res, rd |-> n.rd]
        ELSE IF n.res.val = 0 THEN [res |-> Ok(id[1]), rd |-> n.rd]
        ELSE [res |-> Err("IllFormedSignature"), rd |-> n.rd]

\* the fingerprint test with the comparison left out
fingerprint_matches_any(fpr, kid) == TRUE

\* `s[12..] != key_id[..]` fails the parse: a captured fingerprint must end
\* in the key id
fingerprint_matches(fpr, kid) ==
    fpr = None \/ SubSeq(fpr[1], 13, Len(fpr[1])) = kid

\* the loop `for _ in 0..mpis { read_mpi(reader)?; }`
RECURSIVE read_mpis(_, _, _)
read_mpis(rd, mpis, count) ==
    IF count = mpis THEN [res |-> Ok(count), rd |-> rd, count |-> count]
    ELSE
    LET m == read_mpi(rd) IN
    IF ~m.res.ok THEN [res |-> m.res, rd |-> m.rd, count |-> count]
    ELSE read_mpis(m.rd, mpis, count + 1)

\* parse_packet_body after the match on the version: the algorithms, the
\* creation time, the hash preview and the MPIs
body_tail(rd, ver, pkey, hash, allow, id, kid) ==
    LET mp == pkey_alg_mpis(pkey, ver) IN
    IF ~mp.ok THEN [res |-> mp, rd |-> rd, count |-> 0]
    ELSE
    LET ch == check_hash_algorithm(hash, allow) IN
    IF ~ch.ok THEN [res |-> ch, rd |-> rd, count |-> 0]
    ELSE IF id.creation_time = None
    THEN [res |-> Err("NoCreationTime"), rd |-> rd, count |-> 0]
    ELSE
    LET pv == get_bytes(rd, 2) IN
    IF ~pv.res.ok THEN [res |-> pv.res, rd |-> pv.rd, count |-> 0]
    ELSE
    LET ms == read_mpis(pv.rd, mp.val, 0) IN
    IF ~ms.res.ok THEN [res |-> ms.res, rd |-> ms.rd, count |-> ms.count]
    ELSE [res |-> Ok([hash_alg |-> hash, pkey_alg |-> pkey,
                      creation_time |-> id.creation_time[1],
                      expiration_time |-> id.expiration_time,
                      key_id |-> kid, fingerprint |-> id.fpr]),
          rd |-> ms.rd, count |-> ms.count]

\* parse without the requirement that the buffer be used up
parse_keep_junk(res, rest) == res

\* parse: read_all over the whole buffer; `res` is what read_signature
\* returned on it and `rest` what read_signature left unread
parse(res, rest) == read_all(res, rest, "TrailingJunk")

-----------------------------------------------------------------------------
(* The caller: the buffers it hands to the decoder.  A signature is grown   *)
(* field by field in the order the decoder reads the fields; a field the    *)
(* decoder has not reached yet keeps a default value.  The caller extends   *)
(* a signature only after the decoder has run out of input on it.           *)

\* issuer key ids
K1 == <<1, 2, 3, 4, 5, 6, 7, 8>>
K2 == <<1, 2, 3, 4, 5, 6, 7, 9>>
KeyIds == {K1, K2}

\* a 20-byte fingerprint ending in key id k
Fpr(k) == <<17, 18, 19, 20, 21, 22, 23, 24, 25, 26, 27, 28>> \o k

\* timestamps carried by subpackets and by version-3 signatures
Times == {RefTime - 1, RefTime}

\* reference times: 0 enforces no time policy
RefTimes == {0, RefTime}

\* a subpacket with a one-byte length: length, tag byte, payload
Subpacket(tagbyte, payload) == <<1 + Len(payload), tagbyte>> \o payload

\* tag bytes of kinds process_subpacket rejects, with and without the
\* critical bit
DeniedTagBytes ==
    {SUBPACKET_KEY_EXPIRATION_TIME, 128 + SUBPACKET_KEY_EXPIRATION_TIME,
     SUBPACKET_NOTATION, 128 + SUBPACKET_NOTATION, 100, 128 + 100}

\* the subpackets the caller chooses from
SubpacketChoices ==
    {Subpacket(SUBPACKET_CREATION_TIME, u32_to_be_bytes(t)) : t \in Times}
    \cup {Subpacket(128 + SUBPACKET_CREATION_TIME, u32_to_be_bytes(RefTime))}
    \cup {Subpacket(SUBPACKET_SIG_EXPIRATION_TIME, u32_to_be_bytes(t)) :
            t \in Times}
    \cup {Subpacket(SUBPACKET_ISSUER_KEYID, K1)}
    \cup {Subpacket(SUBPACKET_FINGERPRINT, <<4>> \o Fpr(k)) : k \in KeyIds}
    \cup {Subpacket(SUBPACKET_FINGERPRINT, <<3>> \o Fpr(K1))}
    \cup {Subpacket(t, <<0>>) : t \in DeniedTagBytes}
    \cup {Subpacket(SUBPACKET_CREATION_TIME, <<0, 0, 1>>),
          Subpacket(SUBPACKET_CREATION_TIME,
                    u32_to_be_bytes(RefTime) \o <<0>>),
          Subpacket(SUBPACKET_ISSUER_KEYID, <<1, 2, 3>>),
          Subpacket(SUBPACKET_FINGERPRINT, <<4>> \o K1),
          <<0>>,
          <<5, SUBPACKET_CREATION_TIME, 0>>}

\* what the caller puts after the hashed area
UnhashedChoices ==
    {<<0, 0>>}
    \cup {<<0, 10, 9, SUBPACKET_ISSUER_KEYID>> \o k : k \in KeyIds}
    \cup {<<0, 10, 9, SUBPACKET_ISSUER_KEYID + 1>> \o K1,
          <<0, 3, 2, SUBPACKET_NOTATION, 0>>,
          <<0, 10, 9>>,
          <<0, 10, 9, SUBPACKET_ISSUER_KEYID, 1, 2, 3>>,
          <<0>>}

\* public-key and hash algorithm codes the caller writes in a signature
PkeyChoices ==
    {OPENPGP_PUBLIC_KEY_RSA, OPENPGP_PUBLIC_KEY_EDDSA,
     OPENPGP_PUBLIC_KEY_ECDSA}

\* a hash algorithm code with the weak-hash policy of the call
HashPolicyChoices ==
    {<<OPENPGP_HASH_SHA256, "No">>, <<OPENPGP_HASH_INSECURE_SHA1, "No">>,
     <<OPENPGP_HASH_INSECURE_SHA1, "Yes">>}

\* MPIs: nine bits (canonical), two bits declared for a one-bit value (not
\* canonical), nine bits cut short
MpiChoices == {<<0, 9, 1, 255>>, <<0, 2, 1>>, <<0, 9, 1>>}

\* sequences of at most n MPIs, concatenated
RECURSIVE MpiRuns(_)
MpiRuns(n) ==
    IF n = 0 THEN {<<>>}
    ELSE MpiRuns(n - 1)
         \cup {r \o m : r \in MpiRuns(n - 1), m \in MpiChoices}

\* the 2-byte hash preview and the MPIs
TailChoices == {<<171, 205>> \o r : r \in MpiRuns(MaxMpis)}

\* the fixed fields of a version-3 signature up to the public-key algorithm
V3Heads ==
    {<<3, l, ty>> \o u32_to_be_bytes(t) \o K1 :
        l \in {5, 4}, ty \in {OPENPGP_SIGNATURE_TYPE_BINARY, 1}, t \in Times}

\* the fields of a version-4 signature up to the public-key algorithm
V4Heads == {<<4, ty>> : ty \in {OPENPGP_SIGNATURE_TYPE_BINARY, 1}}

\* the empty packet body
EmptyGen ==
    [stage |-> 0, v4 |-> FALSE, pre |-> <<>>, algs |-> <<>>, area |-> <<>>,
     nsub |-> 0, unh |-> <<>>, tail |-> <<>>]

\* the packet body of the signature g
Contents(g) ==
    g.pre \o g.algs
    \o (IF g.v4 THEN u16_to_be_bytes(Len(g.area)) \o g.area ELSE <<>>)
    \o g.unh \o g.tail

\* an old-format packet header with a one-byte length: tag 2 is 0x88
Frame(contents) == <<136, Len(contents)>> \o contents

\* other framings of the same body: old format with a two-byte length
\* (0x89), new format (0xC2), an old-format packet with tag 3 (0x8C), an
\* indefinite length (0x8B), a first byte without the top bit (0x08)
Reframings(contents) ==
    {<<137>> \o u16_to_be_bytes(Len(contents)) \o contents,
     <<194, Len(contents)>> \o contents,
     <<140, Len(contents)>> \o contents,
     <<139>> \o contents,
     <<8, Len(contents)>> \o contents}

\* byte strings of length 1..n over {0x00, 0x88}
RECURSIVE ExtraBytes(_)
ExtraBytes(n) ==
    IF n = 0 THEN {}
    ELSE {<<b>> : b \in {0, 136}}
         \cup {x \o <<b>> : x \in ExtraBytes(n - 1), b \in {0, 136}}

\* inputs of read_mpi: every header 0..MaxMpiBits, a first byte with each
\* number of leading zeros, the content whole, one byte short, or followed
\* by one more byte; and readers too short to hold a header
MpiFirstBytes == {0, 1, 2, 4, 8, 16, 32, 64, 127, 128, 255}
MpiContent(n, f) ==
    IF n = 0 THEN <<>>
    ELSE <<f>> \o [i \in 1..(((n + 7) \div 8) - 1) |-> 170]
MpiReaders ==
    {<<>>, <<0>>}
    \cup {u16_to_be_bytes(n) \o MpiContent(n, f) \o x :
            n \in 0..MaxMpiBits, f \in MpiFirstBytes, x \in {<<>>, <<9>>}}
    \cup {u16_to_be_bytes(n)
            \o SubSeq(MpiContent(n, f), 1, Len(MpiContent(n, f)) - 1) :
            n \in 1..MaxMpiBits, f \in MpiFirstBytes}

\* no result yet
Pending == Err("Pending")

\* the reader position that marks an unhashed area not reached
NotReached == <<-1>>

-----------------------------------------------------------------------------
(* The state machine.                                                      *)

\* the decoder's variables before a call
Fresh(d) ==
    /\ data' = d
    /\ reader' = d
    /\ body' = <<>>
    /\ hashed' = <<>>
    /\ unhashed_area' = NotReached
    /\ siginfo' = EmptySigInfo
    /\ sub_seen' = <<>>
    /\ version' = -1
    /\ pkey_alg' = -1
    /\ hash_alg' = -1
    /\ key_id' = None
    /\ mpis_read' = 0
    /\ at' = ""
    /\ result' = Pending
    /\ parse_result' = Pending
    /\ pc' = "call"

InitSignature ==
    /\ op = "signature"
    /\ arg = <<>>
    /\ timestamp \in RefTimes
    /\ allow_weak_hashes = "No"
    /\ gen = EmptyGen
    /\ variant = "base"
    /\ base = <<>>
    /\ data = Frame(Contents(EmptyGen))
    /\ reader = data
    /\ pc = "call"

InitReadMpi ==
    /\ op = "read_mpi"
    /\ arg \in {[rd |-> r] : r \in MpiReaders}
    /\ timestamp = 0
    /\ allow_weak_hashes = "No"
    /\ reader = arg.rd
    /\ pc = "apply"

InitPkeyAlgMpis ==
    /\ op = "pkey_alg_mpis"
    /\ arg \in [alg : Byte, sig_version : 0..MaxVersion]
    /\ timestamp = 0
    /\ allow_weak_hashes = "No"
    /\ reader = <<>>
    /\ pc = "apply"

InitCheckHashAlgorithm ==
    /\ op = "check_hash_algorithm"
    /\ arg \in [hash : Byte]
    /\ timestamp = 0
    /\ allow_weak_hashes \in AllowWeakHashes
    /\ reader = <<>>
    /\ pc = "apply"

Init ==
    /\ \/ InitSignature
       \/ /\ \/ InitReadMpi
             \/ InitPkeyAlgMpis
             \/ InitCheckHashAlgorithm
          /\ gen = EmptyGen
          /\ variant = "none"
          /\ base = <<>>
          /\ data = <<>>
    /\ body = <<>>
    /\ hashed = <<>>
    /\ unhashed_area = NotReached
    /\ siginfo = EmptySigInfo
    /\ sub_seen = <<>>
    /\ version = -1
    /\ pkey_alg = -1
    /\ hash_alg = -1
    /\ key_id = None
    /\ mpis_read = 0
    /\ at = ""
    /\ result = Pending
    /\ parse_result = Pending

\* the decoder returns `res` from step `where`; parse wraps read_signature
\* in read_all over the whole buffer
Return(res, where, rest) ==
    /\ result' = res
    /\ parse_result' = parse(res, rest)
    /\ at' = where
    /\ pc' = "done"

\* read_signature: take the next packet and require a signature packet
ReadSignature ==
    /\ op = "signature"
    /\ pc = "call"
    /\ LET n == next_signature_packet(reader) IN
       /\ reader' = n.rd
       /\ IF n.res.ok
          THEN /\ body' = n.res.val
               /\ pc' = "body"
               /\ UNCHANGED <<result, parse_result, at>>
          ELSE /\ Return(n.res, "read_signature", n.rd)
               /\ UNCHANGED body
    /\ UNCHANGED <<op, arg, timestamp, allow_weak_hashes, gen, variant, base,
                   data, hashed, unhashed_area, siginfo, sub_seen, version,
                   pkey_alg, hash_alg, key_id, mpis_read>>

\* parse_packet_body: the version byte and the match on it, up to the
\* hashed area (version 4) or the algorithm codes (version 3)
ParseBodyHeader ==
    /\ op = "signature"
    /\ pc = "body"
    /\ LET v == byte(body)
           h == IF ~v.res.ok THEN v
                ELSE IF v.res.val = 3 THEN body_v3(v.rd)
                ELSE IF v.res.val = 4 THEN body_v4(v.rd)
                ELSE [res |-> Err("IllFormedSignature"), rd |-> v.rd]
       IN
       /\ version' = IF v.res.ok THEN v.res.val ELSE version
       /\ body' = h.rd
       /\ IF h.res.ok
          THEN /\ pkey_alg' = h.res.val.pkey_alg
               /\ hash_alg' = h.res.val.hash_alg
               /\ siginfo' = [siginfo EXCEPT
                                !.creation_time = h.res.val.creation_time]
               /\ key_id' = h.res.val.key_id
               /\ hashed' = h.res.val.hashed
               /\ pc' = IF v.res.val = 4 THEN "subpackets" ELSE "tail"
               /\ UNCHANGED <<result, parse_result, at>>
          ELSE /\ Return(h.res, "header", reader)
               /\ UNCHANGED <<pkey_alg, hash_alg, siginfo, key_id, hashed>>
    /\ UNCHANGED <<op, arg, timestamp, allow_weak_hashes, gen, variant, base,
                   data, reader, unhashed_area, sub_seen, mpis_read>>

\* one turn of `while !reader.is_empty()` over the hashed area
ParseHashedSubpacket ==
    /\ op = "signature"
    /\ pc = "subpackets"
    /\ ~is_empty(hashed)
    /\ LET s == hashed_subpacket(hashed, timestamp, siginfo) IN
       /\ siginfo' = s.id
       /\ sub_seen' = sub_seen \o s.seen
       /\ hashed' = s.rd
       /\ IF s.res.ok
          THEN UNCHANGED <<result, parse_result, at, pc>>
          ELSE Return(s.res, "subpackets", reader)
    /\ UNCHANGED <<op, arg, timestamp, allow_weak_hashes, gen, variant, base,
                   data, reader, body, unhashed_area, version, pkey_alg,
                   hash_alg, key_id, mpis_read>>

\* the hashed area is used up: resolve the key id from the unhashed area
\* and compare it with the fingerprint
ParseUnhashed ==
    /\ op = "signature"
    /\ pc = "subpackets"
    /\ is_empty(hashed)
    /\ unhashed_area' = body
    /\ LET u == unhashed_key_id(siginfo.id, body) IN
       /\ body' = u.rd
       /\ IF ~u.res.ok
          THEN /\ Return(u.res, "unhashed", reader)
               /\ UNCHANGED key_id
          ELSE /\ key_id' = Some(u.res.val)
               /\ IF fingerprint_matches(siginfo.fpr, u.res.val)
                  THEN /\ pc' = "tail"
                       /\ UNCHANGED <<result, parse_result, at>>
                  ELSE Return(Err("IllFormedSignature"), "fingerprint",
                              reader)
    /\ UNCHANGED <<op, arg, timestamp, allow_weak_hashes, gen, variant, base,
                   data, reader, hashed, siginfo, sub_seen, version,
                   pkey_alg, hash_alg, mpis_read>>

\* the algorithms, the creation time, the hash preview, the MPIs, and
\* read_signature's read_all over the packet contents
ParseBodyTail ==
    /\ op = "signature"
    /\ pc = "tail"
    /\ LET t == body_tail(body, version, pkey_alg, hash_alg,
                          allow_weak_hashes, siginfo, key_id[1])
       IN
       /\ body' = t.rd
       /\ mpis_read' = t.count
       /\ Return(read_all(t.res, t.rd, "TrailingJunk"), "tail", reader)
    /\ UNCHANGED <<op, arg, timestamp, allow_weak_hashes, gen, variant, base,
                   data, reader, hashed, unhashed_area, siginfo, sub_seen,
                   version, pkey_alg, hash_alg, key_id>>

\* the decoder ran out of input in step `where`
RanOut(where) ==
    /\ op = "signature"
    /\ pc = "done"
    /\ variant = "base"
    /\ result = Err("PrematureEOF")
    /\ at = where

\* the caller starts a signature: the version and what precedes the
\* public-key algorithm, with the default algorithms
GrowHead ==
    /\ RanOut("header")
    /\ gen.stage = 0
    /\ \E g \in {[EmptyGen EXCEPT !.stage = 1, !.v4 = TRUE, !.pre = h,
                                  !.algs = <<OPENPGP_PUBLIC_KEY_EDDSA,
                                             OPENPGP_HASH_SHA256>>] :
                    h \in V4Heads}
              \cup {[EmptyGen EXCEPT !.stage = 1, !.pre = h,
                                     !.algs = <<OPENPGP_PUBLIC_KEY_RSA,
                                                OPENPGP_HASH_SHA256>>] :
                    h \in V3Heads}
              \cup {[EmptyGen EXCEPT !.stage = 1, !.pre = <<v>>] :
                    v \in {2, 5}} :
         /\ gen' = g
         /\ Fresh(Frame(Contents(g)))
    /\ UNCHANGED <<op, arg, timestamp, allow_weak_hashes, variant, base>>

\* the caller adds a subpacket to the hashed area
GrowSubpacket ==
    /\ RanOut("unhashed")
    /\ gen.stage = 1
    /\ gen.nsub < MaxSubpackets
    /\ \E sp \in SubpacketChoices :
         /\ gen' = [gen EXCEPT !.area = @ \o sp, !.nsub = @ + 1]
         /\ Fresh(Frame(Contents(gen')))
    /\ UNCHANGED <<op, arg, timestamp, allow_weak_hashes, variant, base>>

\* the caller adds the unhashed area
GrowUnhashed ==
    /\ RanOut("unhashed")
    /\ gen.stage = 1
    /\ \E u \in UnhashedChoices :
         /\ gen' = [gen EXCEPT !.stage = 2, !.unh = u]
         /\ Fresh(Frame(Contents(gen')))
    /\ UNCHANGED <<op, arg, timestamp, allow_weak_hashes, variant, base>>

\* the caller settles the algorithm codes and the weak-hash policy, once
\* the decoder has come to look at them
GrowAlgs ==
    /\ op = "signature"
    /\ pc = "done"
    /\ variant = "base"
    /\ at = "tail"
    /\ result.err \in {"PrematureEOF", "NoCreationTime"}
    /\ gen.stage \in {1, 2}
    /\ \E p \in PkeyChoices, hw \in HashPolicyChoices :
         /\ gen' = [gen EXCEPT !.stage = 3, !.algs = <<p, hw[1]>>]
         /\ allow_weak_hashes' = hw[2]
         /\ Fresh(Frame(Contents(gen')))
    /\ UNCHANGED <<op, arg, timestamp, variant, base>>

\* the caller adds the hash preview and the MPIs
GrowTail ==
    /\ RanOut("tail")
    /\ gen.stage = 3
    /\ \E t \in TailChoices :
         /\ gen' = [gen EXCEPT !.stage = 4, !.tail = t]
         /\ Fresh(Frame(Contents(gen')))
    /\ UNCHANGED <<op, arg, timestamp, allow_weak_hashes, variant, base>>

\* parse accepted the buffer: the caller may try a buffer derived from it
Accepted ==
    /\ op = "signature"
    /\ pc = "done"
    /\ variant = "base"
    /\ parse_result.ok

\* what is remembered of the accepted buffer
BaseOf == [data |-> data, result |-> result, parse_result |-> parse_result]

\* the caller hands over a proper prefix of an accepted buffer
Truncate ==
    /\ Accepted
    /\ \E n \in 0..(Len(data) - 1) : Fresh(SubSeq(data, 1, n))
    /\ variant' = "prefix"
    /\ base' = BaseOf
    /\ UNCHANGED <<op, arg, timestamp, allow_weak_hashes, gen>>

\* the caller hands over an accepted buffer followed by more bytes
AppendBytes ==
    /\ Accepted
    /\ \E x \in ExtraBytes(MaxExtra) : Fresh(data \o x)
    /\ variant' = "append"
    /\ base' = BaseOf
    /\ UNCHANGED <<op, arg, timestamp, allow_weak_hashes, gen>>

\* the caller puts more bytes inside the packet, after the last MPI
InnerJunk ==
    /\ Accepted
    /\ \E x \in ExtraBytes(MaxExtra) : Fresh(Frame(Contents(gen) \o x))
    /\ variant' = "junk"
    /\ base' = BaseOf
    /\ UNCHANGED <<op, arg, timestamp, allow_weak_hashes, gen>>

\* the caller frames the accepted packet body in another way
Reframe ==
    /\ Accepted
    /\ \E d \in Reframings(Contents(gen)) : Fresh(d)
    /\ variant' = "reframe"
    /\ base' = BaseOf
    /\ UNCHANGED <<op, arg, timestamp, allow_weak_hashes, gen>>

\* the variables a pure-function call leaves alone
PureUnchanged ==
    UNCHANGED <<op, arg, timestamp, allow_weak_hashes, gen, variant, base,
                data, body, hashed, unhashed_area, siginfo, sub_seen,
                version, pkey_alg, hash_alg, key_id, mpis_read,
                parse_result>>

\* a call of read_mpi
ApplyReadMpi ==
    /\ op = "read_mpi"
    /\ pc = "apply"
    /\ LET m == read_mpi(reader) IN
       /\ result' = m.res
       /\ reader' = m.rd
    /\ at' = "read_mpi"
    /\ pc' = "done"
    /\ PureUnchanged

\* a call of pkey_alg_mpis
ApplyPkeyAlgMpis ==
    /\ op = "pkey_alg_mpis"
    /\ pc = "apply"
    /\ result' = pkey_alg_mpis(arg.alg, arg.sig_version)
    /\ at' = "pkey_alg_mpis"
    /\ pc' = "done"
    /\ UNCHANGED reader
    /\ PureUnchanged

\* a call of check_hash_algorithm
ApplyCheckHashAlgorithm ==
    /\ op = "check_hash_algorithm"
    /\ pc = "apply"
    /\ result' = check_hash_algorithm(arg.hash, allow_weak_hashes)
    /\ at' = "check_hash_algorithm"
    /\ pc' = "done"
    /\ UNCHANGED reader
    /\ PureUnchanged

Next ==
    \/ ReadSignature
    \/ ParseBodyHeader
    \/ ParseHashedSubpacket
    \/ ParseUnhashed
    \/ ParseBodyTail
    \/ GrowHead
    \/ GrowSubpacket
    \/ GrowUnhashed
    \/ GrowAlgs
    \/ GrowTail
    \/ Truncate
    \/ AppendBytes
    \/ InnerJunk
    \/ Reframe
    \/ ApplyReadMpi
    \/ ApplyPkeyAlgMpis
    \/ ApplyCheckHashAlgorithm

Spec == Init /\ [][Next]_vars

-----------------------------------------------------------------------------
(* Vocabulary of the properties.                                           *)

\* the decoder has returned from read_signature / parse
SigDone == op = "signature" /\ pc = "done"

\* the kind of a subpacket: its tag byte without the critical bit
Kind(sp) == sp.tag % 128

\* the four kinds the decoder accepts in a hashed area
AcceptedKinds ==
    {SUBPACKET_CREATION_TIME, SUBPACKET_SIG_EXPIRATION_TIME,
     SUBPACKET_ISSUER_KEYID, SUBPACKET_FINGERPRINT}

\* the last subpacket handed to process_subpacket
LastSeen == sub_seen[Len(sub_seen)]

\* the last subpacket processed repeats the kind of an earlier one
SecondOccurrence ==
    /\ op = "signature"
    /\ Len(sub_seen) >= 2
    /\ Kind(LastSeen) \in AcceptedKinds
    /\ \E i \in 1..(Len(sub_seen) - 1) : Kind(sub_seen[i]) = Kind(LastSeen)

\* the 32-bit big-endian value a payload starts with
PayloadTime(sp) ==
    ((sp.payload[1] * 256 + sp.payload[2]) * 256 + sp.payload[3]) * 256
    + sp.payload[4]

\* the unhashed area is the one shape allowed after a hashed area that
\* gave the key id `id` (None when it gave none)
PermittedUnhashed(id, area) ==
    IF id = None
    THEN /\ Len(area) >= 12
         /\ SubSeq(area, 1, 4) = <<0, 10, 9, 16>>
    ELSE /\ Len(area) >= 2
         /\ SubSeq(area, 1, 2) = <<0, 0>>

\* the packet body ends before the bytes the decoder compares, or before
\* the 8 key-id bytes of the issuer record
UnhashedCutShort(id, area) ==
    IF id = None
    THEN \/ Len(area) < 4
         \/ /\ SubSeq(area, 1, 4) = <<0, 10, 9, 16>>
            /\ Len(area) < 12
    ELSE Len(area) < 2

\* number of leading zero bits of a byte, from the definition: the least z
\* with b >= 2^(7-z), and 8 for b = 0
RECURSIVE TwoTo(_)
TwoTo(n) == IF n = 0 THEN 1 ELSE 2 * TwoTo(n - 1)
LeadingZeroBits(b) ==
    IF b = 0 THEN 8
    ELSE CHOOSE z \in 0..7 : b >= TwoTo(7 - z) /\ b < TwoTo(8 - z)

\* ceil(n / 8)
CeilDiv8(n) == CHOOSE k \in 0..n : 8 * k >= n /\ 8 * k < n + 8

\* the bit-length header of the MPI read_mpi was applied to
MpiHeader == arg.rd[1] * 256 + arg.rd[2]

\* read_mpi was applied to a reader holding a header and the whole content
MpiWhole ==
    /\ op = "read_mpi"
    /\ pc = "done"
    /\ Len(arg.rd) >= 2
    /\ Len(arg.rd) - 2 >= CeilDiv8(MpiHeader)

-----------------------------------------------------------------------------
(* C1 (as stated): in a version-4 body, unhashed data that is not the one *)
(* permitted shape (00 00 after a hashed key id, the 10-byte issuer record *)
(* after none) makes the parse fail with IllFormedSignature.               *)
C1_AnyOtherShapeIsIllFormed ==
    (/\ SigDone
     /\ unhashed_area # NotReached
     /\ unhashed_area # <<>>
     /\ ~PermittedUnhashed(siginfo.id, unhashed_area))
    => result = Err("IllFormedSignature")

(* C1 (amended): an unhashed area of the permitted shape resolves the key  *)
(* id (the hashed one after 00 00, the record's 8 bytes otherwise); every  *)
(* other shape fails the parse in that step, with PrematureEOF when the    *)
(* body ends before the bytes compared or before the 8 key-id bytes, and   *)
(* with IllFormedSignature otherwise; so no parse succeeds with a key id   *)
(* in both areas, in neither, or with other unhashed data.                 *)
C1_UnhashedAreaShape ==
    (op = "signature" /\ unhashed_area # NotReached) =>
        IF PermittedUnhashed(siginfo.id, unhashed_area)
        THEN /\ at # "unhashed"
             /\ key_id = IF siginfo.id = None
                         THEN Some(SubSeq(unhashed_area, 5, 12))
                         ELSE siginfo.id
        ELSE /\ pc = "done"
             /\ at = "unhashed"
             /\ ~parse_result.ok
             /\ result =
                  IF UnhashedCutShort(siginfo.id, unhashed_area)
                  THEN Err("PrematureEOF")
                  ELSE Err("IllFormedSignature")

\* C1 witness: a key id in the hashed area and an issuer record in the
\* unhashed area, rejected as ill-formed
C1_Witness ==
    /\ SigDone
    /\ siginfo.id # None
    /\ Len(unhashed_area) = 12
    /\ SubSeq(unhashed_area, 1, 4) = <<0, 10, 9, 16>>
    /\ result = Err("IllFormedSignature")

(* C2: a hashed-area subpacket whose kind (tag byte without the critical   *)
(* bit) is not 2, 3, 16 or 33 fails the parse whatever its payload, with   *)
(* IllFormedSignature for the out-of-context kinds and                     *)
(* UnsupportedCriticalSubpacket for every other kind, the critical bit     *)
(* making no difference; a successful version-4 parse has used up a hashed *)
(* area made of the four accepted kinds only.                              *)
C2_DefaultDeny ==
    /\ (/\ op = "signature"
        /\ sub_seen # <<>>
        /\ Kind(LastSeen) \notin AcceptedKinds)
       => /\ pc = "done"
          /\ at = "subpackets"
          /\ ~parse_result.ok
          /\ result = IF Kind(LastSeen) \in OutOfContextSubpackets
                      THEN Err("IllFormedSignature")
                      ELSE Err("UnsupportedCriticalSubpacket")
    /\ (SigDone /\ result.ok /\ version = 4)
       => /\ hashed = <<>>
          /\ \A i \in 1..Len(sub_seen) : Kind(sub_seen[i]) \in AcceptedKinds

\* C2 witness: a critical notation subpacket after an accepted subpacket
C2_Witness ==
    /\ SigDone
    /\ Len(sub_seen) >= 2
    /\ LastSeen.tag = 128 + SUBPACKET_NOTATION
    /\ result = Err("UnsupportedCriticalSubpacket")

(* C3 (as stated): a second creation-time, expiration-time, issuer-key-id  *)
(* or fingerprint subpacket in the hashed area yields IllFormedSignature,  *)
(* for every reference time and every value it carries.                    *)
C3_SecondOccurrenceIsIllFormed ==
    SecondOccurrence => (pc = "done" /\ result = Err("IllFormedSignature"))

(* C3 (amended): a second occurrence of one of the four kinds is the last  *)
(* subpacket processed and fails the parse: with PrematureEOF when a time  *)
(* or fingerprint payload is too short, with SignatureNotValidYet /        *)
(* SignatureExpired when a second creation / expiration time fails the     *)
(* non-zero reference time, and with IllFormedSignature otherwise; so each *)
(* accumulator field goes from absent to present at most once.             *)
C3_SecondOccurrenceFails ==
    /\ SecondOccurrence =>
        /\ pc = "done"
        /\ at = "subpackets"
        /\ ~parse_result.ok
        /\ result =
            IF Kind(LastSeen) = SUBPACKET_ISSUER_KEYID
            THEN Err("IllFormedSignature")
            ELSE IF Kind(LastSeen) = SUBPACKET_FINGERPRINT
            THEN IF Len(LastSeen.payload) < 21
                 THEN Err("PrematureEOF")
                 ELSE Err("IllFormedSignature")
            ELSE IF Len(LastSeen.payload) < 4
            THEN Err("PrematureEOF")
            ELSE IF /\ Kind(LastSeen) = SUBPACKET_CREATION_TIME
                    /\ timestamp # 0
                    /\ PayloadTime(LastSeen) < timestamp
            THEN Err("SignatureNotValidYet")
            ELSE IF /\ Kind(LastSeen) = SUBPACKET_SIG_EXPIRATION_TIME
                    /\ timestamp # 0
                    /\ PayloadTime(LastSeen) >= timestamp
            THEN Err("SignatureExpired")
            ELSE Err("IllFormedSignature")
    /\ (op = "signature" /\ pc # "done") =>
        \A i, j \in 1..Len(sub_seen) :
            (i # j /\ Kind(sub_seen[i]) \in AcceptedKinds)
            => Kind(sub_seen[i]) # Kind(sub_seen[j])

\* C3 witness: a second creation time carrying another value than the
\* first, rejected as ill-formed
C3_Witness ==
    /\ SecondOccurrence
    /\ pc = "done"
    /\ Kind(LastSeen) = SUBPACKET_CREATION_TIME
    /\ \E i \in 1..(Len(sub_seen) - 1) :
          /\ Kind(sub_seen[i]) = SUBPACKET_CREATION_TIME
          /\ sub_seen[i].payload # LastSeen.payload
    /\ result = Err("IllFormedSignature")

(* C4: a returned SigInfo that has a fingerprint has a key_id equal to the *)
(* fingerprint's last 8 bytes, whichever area gave the key id; a version-4 *)
(* signature whose fingerprint ends otherwise fails with                   *)
(* IllFormedSignature.                                                     *)
C4_FingerprintEndsInKeyId ==
    /\ (SigDone /\ result.ok /\ result.val.fingerprint # None)
       => /\ Len(result.val.fingerprint[1]) = 20
          /\ Len(result.val.key_id) = 8
          /\ \A i \in 1..8 :
                result.val.fingerprint[1][12 + i] = result.val.key_id[i]
    /\ (/\ op = "signature"
        /\ version = 4
        /\ key_id # None
        /\ siginfo.fpr # None
        /\ \E i \in 1..8 : siginfo.fpr[1][12 + i] # key_id[1][i])
       => /\ pc = "done"
          /\ result = Err("IllFormedSignature")
          /\ parse_result = Err("IllFormedSignature")

\* C4 witness: an accepted signature with a fingerprint whose key id came
\* from the unhashed issuer record
C4_Witness ==
    /\ SigDone
    /\ parse_result.ok
    /\ result.val.fingerprint # None
    /\ siginfo.id = None
    /\ result.val.key_id = K2

(* C5: every proper prefix of a buffer parse accepts, the empty one and    *)
(* the buffer less its last byte included, fails with PrematureEOF through *)
(* read_signature and through parse, and the cursor stays inside the       *)
(* prefix.                                                                 *)
C5_PrefixIsPrematureEOF ==
    (SigDone /\ variant = "prefix")
    => /\ base.parse_result.ok
       /\ Len(data) < Len(base.data)
       /\ result = Err("PrematureEOF")
       /\ parse_result = Err("PrematureEOF")
       /\ Len(reader) <= Len(data)

\* C5 witness: the accepted buffer less its last byte, and the empty
\* prefix is covered by the same run of prefixes
C5_Witness ==
    /\ SigDone
    /\ variant = "prefix"
    /\ Len(data) = Len(base.data) - 1
    /\ result = Err("PrematureEOF")

(* C6: for a buffer B parse accepts and every non-empty X, parse(B ++ X)   *)
(* fails with TrailingJunk while read_signature on B ++ X returns the      *)
(* SigInfo it returns on B and leaves exactly X in the cursor; bytes left  *)
(* in the packet's contents after the last MPI fail both entry points with *)
(* TrailingJunk.                                                           *)
C6_TrailingData ==
    /\ (SigDone /\ variant = "append")
       => /\ base.parse_result.ok
          /\ Len(data) > Len(base.data)
          /\ parse_result = Err("TrailingJunk")
          /\ result.ok
          /\ result = base.result
          /\ base.data \o reader = data
    /\ (SigDone /\ variant = "junk")
       => /\ base.parse_result.ok
          /\ result = Err("TrailingJunk")
          /\ parse_result = Err("TrailingJunk")

\* C6 witness: read_signature accepts B ++ X where parse rejects it
C6_Witness ==
    /\ SigDone
    /\ variant = "append"
    /\ result.ok
    /\ reader = <<136>>
    /\ parse_result = Err("TrailingJunk")

(* C7 (as stated): read_mpi accepts a non-empty content only if the        *)
(* header's low 3 bits equal 7 minus the number of leading zero bits of    *)
(* the first content byte, and fails with BadMPI otherwise.                *)
C7_HeaderLowBitsRule ==
    (MpiWhole /\ MpiHeader > 0)
    => (result.ok <=> (MpiHeader % 8 = 7 - LeadingZeroBits(arg.rd[3])))

(* C7 (amended): read_mpi reads a 16-bit big-endian bit count n, takes     *)
(* ceil(n/8) bytes, and accepts a non-empty content exactly when the low 3 *)
(* bits of n + 7 (not of n) equal 7 minus the number of leading zero bits  *)
(* of the first content byte, failing with BadMPI otherwise; n = 0 yields  *)
(* an empty magnitude; a reader too short for the header or the content    *)
(* fails with PrematureEOF; a failed call leaves the reader where it was.  *)
C7_ReadMpi ==
    (op = "read_mpi" /\ pc = "done") =>
        IF ~MpiWhole
        THEN result = Err("PrematureEOF") /\ reader = arg.rd
        ELSE IF /\ MpiHeader > 0
                /\ (MpiHeader + 7) % 8 # 7 - LeadingZeroBits(arg.rd[3])
        THEN result = Err("BadMPI") /\ reader = arg.rd
        ELSE /\ result.ok
             /\ Len(result.val) = CeilDiv8(MpiHeader)
             /\ u16_to_be_bytes(MpiHeader) \o result.val \o reader = arg.rd

\* C7 witness: an 8-bit MPI whose byte has its top bit set is accepted
C7_Witness ==
    /\ MpiWhole
    /\ MpiHeader = 8
    /\ arg.rd[3] = 128
    /\ result = Ok(<<128>>)

C9_PkeyAlgMpis ==
    /\ (op = "pkey_alg_mpis" /\ pc = "done") =>
        LET a == arg.alg
            v == arg.sig_version
        IN
        IF v \notin {3, 4} THEN result = Err("UnsupportedSignatureVersion")
        ELSE
        /\ a \in {2, 16, 20, 18, 21}
           => result = ErrWith("InvalidPkeyAlgorithm", a)
        /\ a \in {1, 3} => result = Ok(1)
        /\ a = 17 => result = Ok(2)
        /\ a = 22 => result = IF v = 4 THEN Ok(2)
                              ELSE ErrWith("PkeyAlgorithmRequiresV4Sig", a)
        /\ a = 19 => result = IF v = 4
                              THEN ErrWith("UnsupportedPkeyAlgorithm", a)
                              ELSE ErrWith("PkeyAlgorithmRequiresV4Sig", a)
        /\ a \notin {2, 16, 20, 18, 21, 1, 3, 17, 22, 19}
           => result = ErrWith("UnknownPkeyAlgorithm", a)
    /\ (SigDone /\ result.ok) =>
        /\ version \in {3, 4}
        /\ pkey_alg \in {1, 3} => mpis_read = 1
        /\ pkey_alg = 17 => mpis_read = 2
        /\ pkey_alg = 22 => (mpis_read = 2 /\ version = 4)
        /\ pkey_alg \in {1, 3, 17, 22}
        /\ body = <<>>

\* C9 witness: EdDSA under version 3 requires version 4
C9_Witness ==
    /\ op = "pkey_alg_mpis"
    /\ pc = "done"
    /\ arg.alg = 22
    /\ arg.sig_version = 3
    /\ result = ErrWith("PkeyAlgorithmRequiresV4Sig", 22)

(* C10: a successful parse made with a non-zero reference time T, in       *)
(* either wire version, returns a creation_time >= T and an                *)
(* expiration_time, when present, < T; with reference time 0 no parse      *)
(* fails with SignatureExpired or SignatureNotValidYet.                    *)
C10_TimePolicy ==
    /\ (SigDone /\ result.ok /\ timestamp # 0) =>
        /\ result.val.creation_time >= timestamp
        /\ \/ result.val.expiration_time = None
           \/ result.val.expiration_time[1] < timestamp
    /\ (SigDone /\ timestamp = 0) =>
        result.err \notin {"SignatureExpired", "SignatureNotValidYet"}

====
